---- MODULE Spec2Model ----
(***************************************************************************)
(* Nussinov RNA secondary structure prediction (src/nussinov.cpp).         *)
(*                                                                         *)
(* The model follows main(): a sequence is read, nussinov() allocates the  *)
(* table (initialize), fills it cell by cell with OPT, mirrors it, runs    *)
(* traceback from (0, N-1), and write_structure renders the dot-bracket    *)
(* string.  Indices are 0-based as in the source.  The recursion of        *)
(* traceback is kept as an explicit call stack of (i, j) frames, popped in *)
(* the order the calls are made.                                           *)
(***************************************************************************)
EXTENDS Integers, Sequences, FiniteSets

\* ---------------------------------------------------------------- bounds
\* Longest input over the whole symbol set.
MaxLen == 6
\* Longest input over the reduced symbol set LongSymbols.
MaxLongLen == 8
\* Largest value an out-of-range table read may produce.
MaxJunk == 1

\* Symbols an input may hold: the four nucleotides and one foreign symbol.
Symbols == {"A", "U", "C", "G", "X"}
\* Symbols of the longer inputs.
LongSymbols == {"A", "U", "G"}

VARIABLES
    sequence,     \* the input string, a function 0..N-1 -> symbol
    N,            \* int N = sequence.length()
    DP,           \* vector<vector<int>> DP, DP[i][j]
    structure,    \* vector<pair<int,int>> structure
    k, i,         \* counters of the fill loop of nussinov()
    stack,        \* pending traceback calls, next call first
    dot_bracket,  \* result of write_structure, a function 0..N-1 -> char
    pc,           \* position in main()/nussinov()
    written,      \* cells written by the fill loop, in order
    lastFill,     \* what OPT did for the cell written last
    last,         \* what the last traceback call did
    oob           \* some access so far used an index outside 0..N-1

vars == <<sequence, N, DP, structure, k, i, stack, dot_bracket, pc,
          written, lastFill, last, oob>>

\* ------------------------------------------------------------- helpers
Max2(a, b) == IF a >= b THEN a ELSE b
Min2(a, b) == IF a <= b THEN a ELSE b
MaxOf(S) == CHOOSE x \in S : \A y \in S : y <= x
MinOf(S) == CHOOSE x \in S : \A y \in S : x <= y

InRange(x) == 0 <= x /\ x < N
CellInRange(c) == InRange(c[1]) /\ InRange(c[2])

\* A table read; an out-of-range read yields an arbitrary value.
Rd(x, y, junk) == IF InRange(x) /\ InRange(y) THEN DP[x][y] ELSE junk

\* ----------------------------------------------------------- pair_check
pair_check_wobble(a, b) ==
    \/ (a = "A" /\ b = "U") \/ (a = "U" /\ b = "A")
    \/ (a = "C" /\ b = "G") \/ (a = "G" /\ b = "C")
    \/ (a = "G" /\ b = "U") \/ (a = "U" /\ b = "G")

pair_check(a, b) ==
    \/ (a = "A" /\ b = "U") \/ (a = "U" /\ b = "A")
    \/ (a = "C" /\ b = "G") \/ (a = "G" /\ b = "C")

\* ------------------------------------------------------------------ OPT
\* The positions t of the for loop of OPT whose symbol pairs with sequence[j].
OPTSplits(a, b, s) == {t \in a..(b - 5) : pair_check(s[t], s[b])}

RECURSIVE OPT_ShortScan(_, _, _, _)
OPT_ShortScan(a, b, s, D) ==
    IF a >= b - 4 THEN 0
    ELSE LET unpaired == OPT_ShortScan(a, b - 1, s, D)
             pairing == {1 + OPT_ShortScan(a, t - 1, s, D)
                           + OPT_ShortScan(t + 1, b - 1, s, D) :
                         t \in {u \in (a + 1)..(b - 5) : pair_check(s[u], s[b])}}
             paired == IF pairing = {} THEN 0 ELSE MaxOf(pairing)
         IN  Max2(unpaired, paired)

\* OPT never indexes its parameter DP: every sub-score is a recursive call.
RECURSIVE OPT(_, _, _, _)
OPT(a, b, s, D) ==
    IF a >= b - 4 THEN 0
    ELSE LET unpaired == OPT(a, b - 1, s, D)
             pairing == {1 + OPT(a, t - 1, s, D) + OPT(t + 1, b - 1, s, D) :
                         t \in OPTSplits(a, b, s)}
             paired == IF pairing = {} THEN 0 ELSE MaxOf(pairing)
         IN  Max2(unpaired, paired)

\* Number of recursive invocations of OPT made below the call OPT(a, b).
RECURSIVE OPTCalls(_, _, _)
RECURSIVE OPTCallsFrom(_, _, _, _)
OPTCalls(a, b, s) ==
    IF a >= b - 4 THEN 0
    ELSE 1 + OPTCalls(a, b - 1, s) + OPTCallsFrom(a, a, b, s)
OPTCallsFrom(t, a, b, s) ==
    IF t >= b - 4 THEN 0
    ELSE (IF pair_check(s[t], s[b])
          THEN 2 + OPTCalls(a, t - 1, s) + OPTCalls(t + 1, b - 1, s)
          ELSE 0) + OPTCallsFrom(t + 1, a, b, s)

\* Table cells read by OPT(a, b): its body has no DP[..] expression.
OPTReads(a, b) == {}

\* Positions of sequence read by OPT(a, b), over the whole recursion.
RECURSIVE OPTSeqReads(_, _, _)
OPTSeqReads(a, b, s) ==
    IF a >= b - 4 THEN {}
    ELSE (a..(b - 5)) \cup {b} \cup OPTSeqReads(a, b - 1, s)
         \cup UNION {OPTSeqReads(a, t - 1, s) \cup OPTSeqReads(t + 1, b - 1, s) :
                     t \in OPTSplits(a, b, s)}

\* ------------------------------------------------------------ initialize
initialize_ones(n) == [x \in 0..(n - 1) |-> [y \in 0..(n - 1) |-> IF x = y THEN 1 ELSE 0]]

\* An n x n table of zeros; the loops of lines 114-119 store 0 again.
initialize(n) == [x \in 0..(n - 1) |-> [y \in 0..(n - 1) |-> 0]]

\* ------------------------------------------------------------------ Init
Inputs ==
    UNION {[0..(n - 1) -> Symbols] : n \in 0..MaxLen}
    \cup UNION {[0..(n - 1) -> LongSymbols] : n \in (MaxLen + 1)..MaxLongLen}

NoFill == [cell |-> <<-1, -1>>, reads |-> {}, calls |-> 0]
NoCall == [kind |-> "none", i |-> -1, j |-> -1, k |-> -1, emitted |-> <<>>,
           calls |-> <<>>]

Init ==
    /\ sequence \in Inputs
    /\ N = Cardinality(DOMAIN sequence)
    /\ DP = <<>>
    /\ structure = <<>>
    /\ k = 5
    /\ i = 0
    /\ stack = <<>>
    /\ dot_bracket = <<>>
    /\ pc = "initialize"
    /\ written = <<>>
    /\ lastFill = NoFill
    /\ last = NoCall
    /\ oob = FALSE

\* vector<vector<int>> DP = initialize(N); the fill loop starts at k = 5.
Initialize ==
    /\ pc = "initialize"
    /\ DP' = initialize(N)
    /\ pc' = IF 5 < N THEN "fill" ELSE "sym"
    /\ UNCHANGED <<sequence, N, structure, k, i, stack, dot_bracket,
                   written, lastFill, last, oob>>

\* One iteration of the inner fill loop: DP[i][j] = OPT(i, j, sequence, DP).
FillCell ==
    /\ pc = "fill"
    /\ LET j == i + k IN
       /\ DP' = [DP EXCEPT ![i][j] = OPT(i, j, sequence, DP)]
       /\ written' = Append(written, <<i, j>>)
       /\ lastFill' = [cell |-> <<i, j>>, reads |-> OPTReads(i, j),
                       calls |-> OPTCalls(i, j, sequence)]
       /\ oob' = (oob \/ ~CellInRange(<<i, j>>)
                      \/ \E x \in OPTSeqReads(i, j, sequence) : ~InRange(x))
    /\ IF i + 1 < N - k
       THEN /\ i' = i + 1 /\ k' = k /\ pc' = "fill"
       ELSE /\ i' = 0 /\ k' = k + 1
            /\ pc' = IF k + 1 < N THEN "fill" ELSE "sym"
    /\ UNCHANGED <<sequence, N, structure, stack, dot_bracket, last>>

\* The mirroring loop, then the call traceback(0, N - 1, ...).
Symmetrize ==
    /\ pc = "sym"
    /\ DP' = [x \in 0..(N - 1) |-> [y \in 0..(N - 1) |->
                IF y < x THEN DP[y][x] ELSE DP[x][y]]]
    /\ oob' = (oob \/ \E x \in 0..(N - 1) : \E y \in 0..(x - 1) :
                        ~CellInRange(<<x, y>>) \/ ~CellInRange(<<y, x>>))
    /\ stack' = << <<0, N - 1>> >>
    /\ pc' = "traceback"
    /\ UNCHANGED <<sequence, N, structure, k, i, dot_bracket,
                   written, lastFill, last>>

\* ------------------------------------------------------------- traceback
\* A read of sequence; an out-of-range read yields an arbitrary symbol.
Sym(x, junkSym) == IF InRange(x) THEN sequence[x] ELSE junkSym

\* else if (DP[i][j] == DP[i][j - 1])
TBSkipTest(x, y, junk) == Rd(x, y, junk) = Rd(x, y - 1, junk)

\* The call made by the skip branch.
TBSkipCall_Two(x, y) == <<x, y - 2>>

TBSkipCall(x, y) == <<x, y - 1>>

\* for (int k = i; k < j - 4; ++k)
TBScan_Short(x, y) == x..(y - 6)

TBScan(x, y) == x..(y - 5)

\* The cell of the left sub-window read for split t: none when k - 1 < 0.
TBLeftCells_NoGuard(x, t) == {<<x, t - 1>>}

TBLeftCells(x, t) == IF t - 1 < 0 THEN {} ELSE {<<x, t - 1>>}

TBLeftScore(x, t, junk) ==
    IF TBLeftCells(x, t) = {} THEN 0 ELSE Rd(x, t - 1, junk)

\* The two nested ifs of the loop body for split t.
TBMatch(x, y, t, junk, junkSym) ==
    /\ pair_check(Sym(t, junkSym), Sym(y, junkSym))
    /\ Rd(x, y, junk) = TBLeftScore(x, t, junk) + Rd(t + 1, y - 1, junk) + 1

TBMatches(x, y, junk, junkSym) ==
    {t \in TBScan(x, y) : TBMatch(x, y, t, junk, junkSym)}

\* The split at which the loop breaks: the first one that matches.
TBChoose_Last(x, y, junk, junkSym) == MaxOf(TBMatches(x, y, junk, junkSym))

TBChoose(x, y, junk, junkSym) == MinOf(TBMatches(x, y, junk, junkSym))

\* The recursive calls made after emitting the pair (t, y), in order.
TBPairCalls_KeepJ(x, y, t) ==
    IF t - 1 < 0 THEN << <<t + 1, y>> >>
    ELSE << <<x, t - 1>>, <<t + 1, y>> >>

TBPairCalls(x, y, t) ==
    IF t - 1 < 0 THEN << <<t + 1, y - 1>> >>
    ELSE << <<x, t - 1>>, <<t + 1, y - 1>> >>

\* The splits the loop visits: all of the range up to the one it breaks at.
TBVisited(x, y, junk, junkSym) ==
    IF TBMatches(x, y, junk, junkSym) = {} THEN TBScan(x, y)
    ELSE {t \in TBScan(x, y) : t <= TBChoose(x, y, junk, junkSym)}

\* Table cells read by the call traceback(x, y).
TBReads(x, y, junk, junkSym) ==
    IF y <= x THEN {}
    ELSE {<<x, y>>, <<x, y - 1>>} \cup
         (IF TBSkipTest(x, y, junk) THEN {}
          ELSE UNION {TBLeftCells(x, t) \cup {<<t + 1, y - 1>>} :
                      t \in {u \in TBVisited(x, y, junk, junkSym) :
                             pair_check(Sym(u, junkSym), Sym(y, junkSym))}})

\* Positions of sequence read by the call traceback(x, y).
TBSeqReads(x, y, junk, junkSym) ==
    IF y <= x \/ TBSkipTest(x, y, junk) THEN {}
    ELSE IF TBVisited(x, y, junk, junkSym) = {} THEN {}
         ELSE TBVisited(x, y, junk, junkSym) \cup {y}

\* Every index the call could use is inside the table and the sequence.
TBFrameSafe(x, y) ==
    y <= x \/ (InRange(x) /\ InRange(y) /\ InRange(y - 1) /\
               \A t \in TBScan(x, y) :
                   InRange(t) /\ InRange(t + 1) /\
                   \A c \in TBLeftCells(x, t) : CellInRange(c))

\* One call traceback(i, j, ...), taken from the top of the call stack.
traceback ==
    /\ pc = "traceback"
    /\ stack # <<>>
    /\ LET x == Head(stack)[1]
           y == Head(stack)[2]
       IN \E junk \in (IF TBFrameSafe(x, y) THEN {0} ELSE 0..MaxJunk),
             junkSym \in (IF TBFrameSafe(x, y) THEN {"X"} ELSE Symbols) :
          /\ oob' = (oob \/ \E c \in TBReads(x, y, junk, junkSym) : ~CellInRange(c)
                         \/ \E p \in TBSeqReads(x, y, junk, junkSym) : ~InRange(p))
          /\ IF y <= x
             THEN /\ stack' = Tail(stack)
                  /\ structure' = structure
                  /\ last' = [kind |-> "return", i |-> x, j |-> y, k |-> -1,
                              emitted |-> <<>>, calls |-> <<>>]
             ELSE IF TBSkipTest(x, y, junk)
             THEN /\ stack' = <<TBSkipCall(x, y)>> \o Tail(stack)
                  /\ structure' = structure
                  /\ last' = [kind |-> "skip", i |-> x, j |-> y, k |-> -1,
                              emitted |-> <<>>, calls |-> <<TBSkipCall(x, y)>>]
             ELSE IF TBMatches(x, y, junk, junkSym) = {}
             THEN /\ stack' = Tail(stack)
                  /\ structure' = structure
                  /\ last' = [kind |-> "nomatch", i |-> x, j |-> y, k |-> -1,
                              emitted |-> <<>>, calls |-> <<>>]
             ELSE LET t == TBChoose(x, y, junk, junkSym) IN
                  /\ structure' = Append(structure, <<t, y>>)
                  /\ stack' = TBPairCalls(x, y, t) \o Tail(stack)
                  /\ last' = [kind |-> "pair", i |-> x, j |-> y, k |-> t,
                              emitted |-> << <<t, y>> >>,
                              calls |-> TBPairCalls(x, y, t)]
    /\ UNCHANGED <<sequence, N, DP, k, i, dot_bracket, pc, written, lastFill>>

\* ------------------------------------------------------- write_structure
\* dot_bracket[min(s.first, s.second)] = '('
WSOpen_Swapped(s) == Max2(s[1], s[2])

WSOpen(s) == Min2(s[1], s[2])

\* dot_bracket[max(s.first, s.second)] = ')'
WSClose(s) == Max2(s[1], s[2])

\* The string after the first n pairs of st have been written into it.
RECURSIVE WSLoop(_, _)
WSLoop(st, n) ==
    IF n = 0 THEN [p \in 0..(N - 1) |-> "."]
    ELSE LET d == WSLoop(st, n - 1)
             s == st[n]
         IN  [p \in 0..(N - 1) |->
                 IF p = WSClose(s) THEN ")"
                 ELSE IF p = WSOpen(s) THEN "("
                 ELSE d[p]]

\* traceback(0, N - 1) has returned; main() calls write_structure.
write_structure ==
    /\ pc = "traceback"
    /\ stack = <<>>
    /\ dot_bracket' = WSLoop(structure, Len(structure))
    /\ oob' = (oob \/ \E n \in 1..Len(structure) :
                        ~InRange(WSOpen(structure[n])) \/ ~InRange(WSClose(structure[n])))
    /\ pc' = "done"
    /\ UNCHANGED <<sequence, N, DP, structure, k, i, stack, written, lastFill, last>>

Next == Initialize \/ FillCell \/ Symmetrize \/ traceback \/ write_structure

Spec == Init /\ [][Next]_vars
\* ================================================================ claims
Range(f) == {f[x] : x \in DOMAIN f}
Returned == (pc = "traceback" /\ stack = <<>>) \/ pc = "done"
WatsonCrick == {<<"A", "U">>, <<"U", "A">>, <<"C", "G">>, <<"G", "C">>}

\* Reference for C1: every pairing of the window a..b, by enumeration.
Candidates(a, b) ==
    {p \in (a..b) \X (a..b) :
        p[2] - p[1] >= 5 /\ pair_check(sequence[p[1]], sequence[p[2]])}
Crossing(p, q) == p[1] < q[1] /\ q[1] < p[2] /\ p[2] < q[2]
SharesIndex(p, q) == {p[1], p[2]} \cap {q[1], q[2]} # {}
IsPairing(S) ==
    \A p \in S : \A q \in S \ {p} : ~SharesIndex(p, q) /\ ~Crossing(p, q)
MaxPairing(a, b) ==
    MaxOf({Cardinality(S) : S \in {T \in SUBSET Candidates(a, b) : IsPairing(T)}})

\* C1: after the fill loop every cell DP[a][b], 0 <= a <= b < N, holds the
\* size of the largest pairing of positions a..b whose pairs are at least 5
\* apart, compatible under pair_check, index-disjoint and non-crossing.
C1_TableIsMaxPairing ==
    (pc = "sym" \/ pc = "done") =>
        \A a \in 0..(N - 1) : \A b \in a..(N - 1) : DP[a][b] = MaxPairing(a, b)
C1_Witness == pc = "sym" /\ N >= 8 /\ DP[0][N - 1] = 2 /\ DP[1][N - 1] = 1

\* C2: the structure returned by nussinov() has exactly DP[0][N-1] pairs
\* (0 pairs when N = 0).
C2_PairCountIsScore ==
    Returned => Len(structure) = (IF N = 0 THEN 0 ELSE DP[0][N - 1])
C2_Witness == pc = "done" /\ Len(structure) = 2

\* C3: every pair (a, b) of the structure has b - a >= 5 and symbols that
\* form one of (A,U), (U,A), (C,G), (G,C); so no position holding a foreign
\* symbol, and no G-U combination, is ever paired.
C3_PairsAreCanonical ==
    \A n \in 1..Len(structure) :
        LET p == structure[n] IN
        /\ p[2] - p[1] >= 5
        /\ <<sequence[p[1]], sequence[p[2]]>> \in WatsonCrick
C3_Witness ==
    /\ pc = "done" /\ Len(structure) = 1
    /\ sequence[structure[1][1]] = "G" /\ sequence[structure[1][2]] = "C"
    /\ \E x \in 0..(N - 1) : sequence[x] = "X"
    /\ \E x \in 0..(N - 1) : sequence[x] = "U"

\* C4: at every point of traceback and in the returned structure no index
\* is in two pairs and no two pairs cross.
C4_NonCrossing ==
    \A m \in 1..Len(structure) : \A n \in 1..Len(structure) :
        m # n => /\ ~SharesIndex(structure[m], structure[n])
                 /\ ~Crossing(structure[m], structure[n])
C4_Witness == pc = "traceback" /\ stack # <<>> /\ Len(structure) = 2

\* Number of positions below n that hold the character c.
Count(d, c, n) == Cardinality({p \in 0..(n - 1) : d[p] = c})

\* C5: the dot-bracket string has length N, holds only '.', '(' and ')',
\* has as many '(' as ')' as there are pairs, and no prefix of it has more
\* ')' than '('.
C5_DotBracketWellFormed ==
    pc = "done" =>
        /\ DOMAIN dot_bracket = 0..(N - 1)
        /\ Range(dot_bracket) \subseteq {".", "(", ")"}
        /\ Count(dot_bracket, "(", N) = Len(structure)
        /\ Count(dot_bracket, ")", N) = Len(structure)
        /\ \A n \in 0..N : Count(dot_bracket, ")", n) <= Count(dot_bracket, "(", n)
C5_Witness == pc = "done" /\ Len(structure) = 2 /\ dot_bracket[1] = "("

\* C6: for an input of length at most 5 the structure stays empty, every
\* table cell stays 0, the rendered string is N dots, and neither an
\* out-of-range access nor a traceback call without a transition occurs.
C6_ShortInputs ==
    N <= 5 =>
        /\ structure = <<>>
        /\ pc # "initialize" =>
              \A x \in 0..(N - 1) : \A y \in 0..(N - 1) : DP[x][y] = 0
        /\ pc = "done" =>
              /\ DOMAIN dot_bracket = 0..(N - 1)
              /\ \A p \in 0..(N - 1) : dot_bracket[p] = "."
        /\ ~oob
        /\ last.kind # "nomatch"
C6_Witness ==
    pc = "done" /\ N = 5 /\ sequence[0] = "A" /\ sequence[4] = "U"

\* The sub-windows whose scores the recurrence for cell (a, b) uses.
SubWindows(a, b) ==
    {<<a, b - 1>>} \cup
    UNION {(IF t > a THEN {<<a, t - 1>>} ELSE {}) \cup {<<t + 1, b - 1>>} :
           t \in OPTSplits(a, b, sequence)}

\* C7: cells are written by increasing window length, from 5 on, and the
\* computation of a cell reads the table cell of every sub-window it needs
\* and makes no recursive evaluation.
C7_FillReadsTable ==
    /\ \A m \in 1..Len(written) :
          /\ written[m][2] - written[m][1] >= 5
          /\ \A n \in 1..(m - 1) :
                written[n][2] - written[n][1] <= written[m][2] - written[m][1]
    /\ lastFill # NoFill =>
          /\ SubWindows(lastFill.cell[1], lastFill.cell[2]) \subseteq lastFill.reads
          /\ lastFill.calls = 0

\* Score(a, t - 1) of the claim: 0 for the empty left window.
LeftScore(a, t) == IF t = a THEN 0 ELSE DP[a][t - 1]
OptimalSplits(a, b) ==
    {t \in a..(b - 5) :
        /\ pair_check(sequence[t], sequence[b])
        /\ DP[a][b] = LeftScore(a, t) + DP[t + 1][b - 1] + 1}
Resolved == last.kind \in {"skip", "pair", "nomatch"}
LeftmostPairEmitted ==
    /\ last.kind = "pair"
    /\ OptimalSplits(last.i, last.j) # {}
    /\ last.k = MinOf(OptimalSplits(last.i, last.j))
    /\ last.emitted = << <<last.k, last.j>> >>
    /\ structure # <<>> /\ structure[Len(structure)] = <<last.k, last.j>>

\* The two sub-windows of the window (a, b) split at t.
SplitWindows(a, b, t) == {<<a, t - 1>>, <<t + 1, b - 1>>}
\* A window (x, y) with y < x holds no position.
NonEmpty(W) == {w \in W : w[1] <= w[2]}

\* C8: a window with DP[i][j] # DP[i][j-1] emits the one pair (t, j) with t
\* the smallest index of [i, j-5] that pairs with j and satisfies
\* DP[i][j] = Score(i, t-1) + DP[t+1][j-1] + 1 (Score 0 for t = i), and
\* traceback goes on with the sub-windows (i, t-1) and (t+1, j-1) and no
\* other: every call is for one of the two, and no call is missing except
\* for a sub-window that holds no position (the call for (0, -1) at t = 0).
C8_LeftmostSplit ==
    (Resolved /\ DP[last.i][last.j] # DP[last.i][last.j - 1]) =>
        /\ LeftmostPairEmitted
        /\ Range(last.calls) \subseteq SplitWindows(last.i, last.j, last.k)
        /\ NonEmpty(SplitWindows(last.i, last.j, last.k)) \subseteq Range(last.calls)
        /\ Len(last.calls) = Cardinality(Range(last.calls))
C8_Witness ==
    /\ last.kind = "pair" /\ last.k > 0
    /\ Cardinality(OptimalSplits(last.i, last.j)) >= 2

\* C9: every window with i < j that traceback reaches either skips
\* (DP[i][j] = DP[i][j-1]) or emits a pair; the scan never ends without one.
C9_TransitionMatches ==
    /\ last.kind # "nomatch"
    /\ (last.kind # "none" /\ last.i < last.j) =>
          \/ last.kind = "skip" /\ DP[last.i][last.j] = DP[last.i][last.j - 1]
          \/ last.kind = "pair" /\ Len(last.emitted) = 1
C9_Witness == last.kind = "pair" /\ last.i > 0

\* C10: no table or sequence access of the fill, the mirroring loop,
\* traceback or write_structure uses an index outside 0..N-1.
C10_IndicesInRange == ~oob
C10_Witness ==
    /\ pc = "done" /\ Len(structure) = 2
    /\ \E n \in 1..2 : structure[n][1] = 0
    /\ last.kind = "return"
====
